---- MODULE Spec2Model ----
(***************************************************************************)
(* Model of the mock execution engine of vm/vm-runtime (mock_vm.rs) and of *)
(* the state store adapter (chain_state.rs).                               *)
(*                                                                         *)
(* u64 values are kept exact.  TLC's integers are 32 bits wide, so a u64   *)
(* is a triple <<h, m, l>> of base-10^9 limbs standing for                 *)
(* h * 10^18 + m * 10^9 + l.                                               *)
(***************************************************************************)
EXTENDS Integers, Sequences, FiniteSets, TLC

VARIABLES
    store,      \* backend content: path (one per address) -> optional blob
    pc,         \* position inside execute_transaction ("idle" between calls)
    txn,        \* the operation being processed / last processed
    res_sender, \* account_resource_sender (account_resource in Mint, BlockMetadata)
    res_recv,   \* account_resource_receiver
    new_recv,   \* new_account_resource_receiver
    result,     \* what the last call returned
    pre,        \* backend content when the current/last call started
    calls,      \* backend calls made by the current/last call, in order
    ntx         \* number of execute_transaction calls started

vars == <<store, pc, txn, res_sender, res_recv, new_recv, result, pre, calls, ntx>>

----------------------------------------------------------------------------
\* Bounds of the model.

NumAddr == 2
MaxTxns == 2
MaxArgs == 3
MaxWrites == 2

Addr == 1..NumAddr

----------------------------------------------------------------------------
\* Exact natural numbers in base-10^9 limbs, and u64 arithmetic on them.

Limb == 1000 * 1000 * 1000

N(n) == <<0, n \div Limb, n % Limb>>

Zero == <<0, 0, 0>>

One == <<0, 0, 1>>

\* 2^64 - 1 = 18,446,744,073,709,551,615
U64Max == <<18, 446744073, 709551615>>

\* 2^64
TwoPow64 == <<18, 446744073, 709551616>>

NLess(x, y) ==
    \/ x[1] < y[1]
    \/ x[1] = y[1] /\ x[2] < y[2]
    \/ x[1] = y[1] /\ x[2] = y[2] /\ x[3] < y[3]

NLeq(x, y) == x = y \/ NLess(x, y)

NAdd(x, y) ==
    LET l == x[3] + y[3]
        m == x[2] + y[2] + (l \div Limb)
    IN  <<x[1] + y[1] + (m \div Limb), m % Limb, l % Limb>>

\* x - y for y <= x
NSub(x, y) ==
    LET bl == IF x[3] < y[3] THEN 1 ELSE 0
        l  == x[3] - y[3] + bl * Limb
        bm == IF x[2] - bl < y[2] THEN 1 ELSE 0
        m  == x[2] - bl - y[2] + bm * Limb
    IN  <<x[1] - bm - y[1], m, l>>

NMin(x, y) == IF NLess(x, y) THEN x ELSE y

IsU64(x) == NLeq(x, U64Max)

Overflows(x, y) == ~IsU64(NAdd(x, y))

\* u64 `+` of a build without overflow checks: the sum modulo 2^64
WrappingAdd(x, y) ==
    IF Overflows(x, y) THEN NSub(NAdd(x, y), TwoPow64) ELSE NAdd(x, y)

----------------------------------------------------------------------------
\* Account resources and their blobs.

AccountResource(balance, sequence_number, authentication_key) ==
    [balance |-> balance,
     sequence_number |-> sequence_number,
     authentication_key |-> authentication_key]

NoResource == AccountResource(Zero, Zero, 0)

\* AccountResource -> Vec<u8> (try_into): the fields in order, limb by limb
Encode(r) ==
    <<r.balance[1], r.balance[2], r.balance[3],
      r.sequence_number[1], r.sequence_number[2], r.sequence_number[3],
      r.authentication_key>>

\* Vec<u8> -> AccountResource (try_into) succeeds on a well-formed blob only
Decodable(blob) ==
    /\ Len(blob) = 7
    /\ \A i \in 1..6 : blob[i] >= 0
    /\ blob[2] < Limb /\ blob[3] < Limb /\ blob[5] < Limb /\ blob[6] < Limb
    /\ IsU64(<<blob[1], blob[2], blob[3]>>)
    /\ IsU64(<<blob[4], blob[5], blob[6]>>)

Decode(blob) ==
    AccountResource(<<blob[1], blob[2], blob[3]>>,
                    <<blob[4], blob[5], blob[6]>>,
                    blob[7])

None == [some |-> FALSE, blob |-> <<>>]

Some(blob) == [some |-> TRUE, blob |-> blob]

\* The resource stored for address a in backend content s (when decodable)
Res(s, a) == Decode(s[a].blob)

HasRes(s, a) == s[a].some /\ Decodable(s[a].blob)

----------------------------------------------------------------------------
\* The backend (ChainState) through the adapter.

\* A path function that sends every address to the first account path
new_for_account_First(account) == 1

\* AccessPath::new_for_account: the account path of an address (paths are named
\* by the address they belong to)
new_for_account(account) == account

\* ChainState::get behind StateStore::get_from_statedb
Get(s, a) == s[a]

\* A set that drops the entry when the path already holds one
Set_DropsExisting(s, a, blob) ==
    IF s[a].some THEN [s EXCEPT ![a] = None] ELSE [s EXCEPT ![a] = Some(blob)]

\* StateStore::set
Set(s, a, blob) == [s EXCEPT ![a] = Some(blob)]

\* StateStore::remove
Remove(s, a) == [s EXCEPT ![a] = None]

\* The authentication key create_account gives the account of address a
KeyOf(a) == a

\* StateStore::create_account: a fresh resource at the account path, if absent
CreateAccountIn(s, a) ==
    IF s[new_for_account(a)].some THEN s
    ELSE Set(s, new_for_account(a), Encode(AccountResource(Zero, Zero, KeyOf(a))))

Call(op, a, ok) == [op |-> op, path |-> a, ok |-> ok]

----------------------------------------------------------------------------
\* Statuses and return values.

KEEP_STATUS == [status |-> "Keep", code |-> "EXECUTED", sub |-> 0]

DISCARD_STATUS == [status |-> "Discard", code |-> "ABORTED", sub |-> 10]

NO_STATUS == [status |-> "None", code |-> "None", sub |-> 0]

\* ret: "Ok" (an outcome), "Err" (a propagated error), "Panic" (processing aborted),
\* "Pending" (the call has not returned), "None" (no call yet)
Ret(ret, st) ==
    [ret |-> ret, status |-> st.status, code |-> st.code, sub |-> st.sub,
     value |-> None]

\* What a read returns: Ok(Option<Vec<u8>>)
RetValue(v) == [Ret("Ok", NO_STATUS) EXCEPT !.value = v]

----------------------------------------------------------------------------
\* Transactions, their encoding and decoding.

Amounts == {N(100), N(150), U64Max}

ArgU64(n) == [tag |-> "U64", u64 |-> n, addr |-> 1]

ArgAddress(a) == [tag |-> "Address", u64 |-> Zero, addr |-> a]

ArgBool == [tag |-> "Bool", u64 |-> Zero, addr |-> 1]

Script(code_empty, args) == [kind |-> "Script", code_empty |-> code_empty, args |-> args]

ModulePayload == [kind |-> "Module", code_empty |-> FALSE, args |-> <<>>]

StateSetPayload == [kind |-> "StateSet", code_empty |-> TRUE, args |-> <<>>]

encode_mint_program(amount) == Script(TRUE, <<ArgU64(amount)>>)

encode_transfer_program(recipient, amount) ==
    Script(TRUE, <<ArgAddress(recipient), ArgU64(amount)>>)

encode_transaction(sender, program) == [sender |-> sender, payload |-> program]

encode_mint_transaction(sender, amount) ==
    encode_transaction(sender, encode_mint_program(amount))

encode_transfer_transaction(sender, recipient, amount) ==
    encode_transaction(sender, encode_transfer_program(recipient, amount))

MockTransaction(kind, sender, recipient, amount) ==
    [kind |-> kind, sender |-> sender, recipient |-> recipient, amount |-> amount]

\* kind "Unsupported" stands for the panic of assert! / unimplemented!
Unsupported(sender) == MockTransaction("Unsupported", sender, sender, Zero)

\* A decoder that looks at the first arguments only and not at their number
decode_transaction_Lenient(t) ==
    LET sender == t.sender
        p == t.payload
    IN  IF p.kind = "Script" /\ p.code_empty /\ Len(p.args) >= 1
        THEN IF p.args[1].tag = "U64"
             THEN MockTransaction("Mint", sender, sender, p.args[1].u64)
             ELSE IF Len(p.args) >= 2 /\ p.args[1].tag = "Address"
                     /\ p.args[2].tag = "U64"
             THEN MockTransaction("Payment", sender, p.args[1].addr, p.args[2].u64)
             ELSE Unsupported(sender)
        ELSE Unsupported(sender)

\* A decoder that takes two arguments (integer, address) for a Payment as well
decode_transaction_AnyOrder(t) ==
    LET sender == t.sender
        p == t.payload
    IN  IF p.kind = "Script"
        THEN IF ~p.code_empty THEN Unsupported(sender)
             ELSE IF Len(p.args) = 1
             THEN IF p.args[1].tag = "U64"
                  THEN MockTransaction("Mint", sender, sender, p.args[1].u64)
                  ELSE Unsupported(sender)
             ELSE IF Len(p.args) = 2
             THEN IF p.args[1].tag = "Address" /\ p.args[2].tag = "U64"
                  THEN MockTransaction("Payment", sender, p.args[1].addr, p.args[2].u64)
                  ELSE IF p.args[1].tag = "U64" /\ p.args[2].tag = "Address"
                  THEN MockTransaction("Payment", sender, p.args[2].addr, p.args[1].u64)
                  ELSE Unsupported(sender)
             ELSE Unsupported(sender)
        ELSE Unsupported(sender)

decode_transaction(t) ==
    LET sender == t.sender
        p == t.payload
    IN  IF p.kind = "Script"
        THEN IF ~p.code_empty THEN Unsupported(sender)
             ELSE IF Len(p.args) = 1
             THEN IF p.args[1].tag = "U64"
                  THEN MockTransaction("Mint", sender, sender, p.args[1].u64)
                  ELSE Unsupported(sender)
             ELSE IF Len(p.args) = 2
             THEN IF p.args[1].tag = "Address" /\ p.args[2].tag = "U64"
                  THEN MockTransaction("Payment", sender, p.args[1].addr, p.args[2].u64)
                  ELSE Unsupported(sender)
             ELSE Unsupported(sender)
        ELSE Unsupported(sender)

\* The shape of a payload, read off the payload alone
PayloadShape(p) ==
    IF p.kind = "Module" THEN "module"
    ELSE IF p.kind = "StateSet" THEN "state_set"
    ELSE IF ~p.code_empty THEN "code"
    ELSE IF Len(p.args) = 0 THEN "no_argument"
    ELSE IF Len(p.args) >= 3 THEN "three_or_more_arguments"
    ELSE IF Len(p.args) = 1
         THEN IF p.args[1].tag = "U64" THEN "integer" ELSE "one_not_integer"
    ELSE IF p.args[1].tag = "Address" /\ p.args[2].tag = "U64"
         THEN "address_integer"
         ELSE "two_not_address_integer"

\* No payload: the call is no UserTransaction
NoPayload == [kind |-> "None", code_empty |-> TRUE, args |-> <<>>]

\* The call being processed: the operation, the payload it was decoded from (with
\* its shape and the sender of the signed transaction) and, for add_write_set,
\* the write-set
Call4(op, shape, payload, ws) ==
    [kind |-> op.kind, sender |-> op.sender, recipient |-> op.recipient,
     amount |-> op.amount, shape |-> shape, signer |-> op.sender,
     payload |-> payload, ws |-> ws]

\* A call that carries neither a payload nor a write-set
Txn(op, shape) == Call4(op, shape, NoPayload, <<>>)

\* A UserTransaction, signed by signer
UserTxn(op, signer, payload) ==
    [Call4(op, PayloadShape(payload), payload, <<>>) EXCEPT !.signer = signer]

\* Argument lists of every shape up to MaxArgs over an integer and an address,
\* and the lists that hold an argument of another type
ShapeArgs == {ArgU64(N(100)), ArgAddress(1)}

ArgLists ==
    UNION {[1..n -> ShapeArgs] : n \in 0..MaxArgs}
    \cup {<<ArgBool>>, <<ArgAddress(1), ArgBool>>, <<ArgBool, ArgU64(N(100))>>}

Payloads ==
    {encode_mint_program(m) : m \in Amounts}
    \cup {encode_transfer_program(r, m) : r \in Addr, m \in Amounts}
    \cup {Script(TRUE, args) : args \in ArgLists}
    \cup {Script(FALSE, args) : args \in {<<ArgU64(N(100))>>,
                                          <<ArgAddress(1), ArgU64(N(100))>>}}
    \cup {ModulePayload, StateSetPayload}

----------------------------------------------------------------------------
\* The arithmetic of execute_transaction.

\* A u64 `+` that overflows panics in a build with overflow checks (debug) and
\* wraps in a build without them (release)
OverflowChecks == BOOLEAN

\* A Mint that adds to the balance and increments the sequence number
MintResource_Adds(account_resource, amount) ==
    AccountResource(WrappingAdd(account_resource.balance, amount),
                    WrappingAdd(account_resource.sequence_number, One),
                    account_resource.authentication_key)

\* Mint arm: the resource written for the sender
MintResource(account_resource, amount) ==
    AccountResource(amount, One, account_resource.authentication_key)

\* A Payment that moves the amount asked for, whatever the sender holds
Deduction_NoClamp(balance_sender, amount) == amount

\* Payment arm: the amount moved
Deduction(balance_sender, amount) ==
    IF NLess(balance_sender, amount) THEN balance_sender ELSE amount

\* Payment arm: some u64 `+` of the arm overflows
PaymentOverflows(s, r, amount) ==
    \/ Overflows(s.sequence_number, One)
    \/ Overflows(r.balance, Deduction(s.balance, amount))

NewSender(s, amount) ==
    AccountResource(NSub(s.balance, Deduction(s.balance, amount)),
                    WrappingAdd(s.sequence_number, One),
                    s.authentication_key)

\* A recipient resource that takes the sender's authentication key
NewReceiver_SenderKey(s, r, amount) ==
    AccountResource(WrappingAdd(r.balance, Deduction(s.balance, amount)),
                    s.sequence_number,
                    s.authentication_key)

NewReceiver(s, r, amount) ==
    AccountResource(WrappingAdd(r.balance, Deduction(s.balance, amount)),
                    s.sequence_number,
                    r.authentication_key)

\* 50_00000000
BlockReward == <<0, 5, 0>>

RewardResource(account_resource) ==
    AccountResource(WrappingAdd(account_resource.balance, BlockReward),
                    account_resource.sequence_number,
                    account_resource.authentication_key)

----------------------------------------------------------------------------
Init ==
    /\ store = [a \in Addr |-> None]
    /\ pc = "idle"
    /\ txn = Txn(MockTransaction("None", 1, 1, Zero), "none")
    /\ res_sender = NoResource
    /\ res_recv = NoResource
    /\ new_recv = NoResource
    /\ result = Ret("None", NO_STATUS)
    /\ pre = [a \in Addr |-> None]
    /\ calls = <<>>
    /\ ntx = 0

----------------------------------------------------------------------------
\* A call begins: the backend content is remembered, the call log is emptied.

Begin(t, next_pc) ==
    /\ txn' = t
    /\ pc' = next_pc
    /\ pre' = store
    /\ calls' = <<>>
    /\ result' = Ret("Pending", NO_STATUS)
    /\ UNCHANGED <<store, res_sender, res_recv, new_recv>>

\* A call ends: with an outcome, a propagated error or a panic.
Return(ret, st) ==
    /\ pc' = "idle"
    /\ result' = Ret(ret, st)
    /\ res_sender' = NoResource
    /\ res_recv' = NoResource
    /\ new_recv' = NoResource

\* MockVM::create_account
CreateAccount(a) ==
    /\ pc = "idle"
    /\ \E ok \in BOOLEAN :
        /\ txn' = Txn(MockTransaction("CreateAccount", a, a, Zero), "none")
        /\ pre' = store
        /\ calls' = <<Call("create_account", a, ok)>>
        /\ store' = IF ok THEN CreateAccountIn(store, a) ELSE store
        /\ Return(IF ok THEN "Ok" ELSE "Err", NO_STATUS)
    /\ UNCHANGED ntx

\* execute_transaction(Transaction::UserTransaction): decode_transaction
ExecuteUserTransaction(sender, payload) ==
    /\ pc = "idle"
    /\ ntx < MaxTxns
    /\ ntx' = ntx + 1
    /\ LET op == decode_transaction(encode_transaction(sender, payload))
           t == UserTxn(op, sender, payload)
       IN  IF op.kind = "Mint" THEN Begin(t, "mint_get")
           ELSE IF op.kind = "Payment" THEN Begin(t, "pay_get_sender")
           ELSE /\ txn' = t
                /\ pre' = store
                /\ calls' = <<>>
                /\ Return("Panic", NO_STATUS)
                /\ UNCHANGED store

\* A sender lookup that takes a missing account for an empty one
SenderLookup_ZeroFill(ok, got) ==
    IF ~ok THEN [out |-> "Err", res |-> NoResource]
    ELSE IF ~got.some THEN [out |-> "Some", res |-> NoResource]
    ELSE IF ~Decodable(got.blob) THEN [out |-> "Err", res |-> NoResource]
    ELSE [out |-> "Some", res |-> Decode(got.blob)]

\* The lookup of a transaction's sender: get_from_statedb(..)? then
\* unwrap() / expect("txn sender must exist.") then try_into()?
SenderLookup(ok, got) ==
    IF ~ok THEN [out |-> "Err", res |-> NoResource]
    ELSE IF ~got.some THEN [out |-> "Panic", res |-> NoResource]
    ELSE IF ~Decodable(got.blob) THEN [out |-> "Err", res |-> NoResource]
    ELSE [out |-> "Some", res |-> Decode(got.blob)]

\* Mint arm: get_from_statedb(&access_path)?.unwrap().try_into()?
MintGet ==
    /\ pc = "mint_get"
    /\ \E ok \in BOOLEAN :
        LET found == SenderLookup(ok, Get(store, new_for_account(txn.sender)))
        IN  /\ calls' = Append(calls, Call("get", new_for_account(txn.sender), ok))
            /\ IF found.out = "Some"
               THEN /\ res_sender' = found.res
                    /\ pc' = "mint_set"
                    /\ UNCHANGED <<result, res_recv, new_recv>>
               ELSE Return(found.out, NO_STATUS)
    /\ UNCHANGED <<store, txn, pre, ntx>>

\* Mint arm: state_store.set(access_path, new_account_resource).unwrap()
MintSet ==
    /\ pc = "mint_set"
    /\ \E ok \in BOOLEAN :
        /\ calls' = Append(calls, Call("set", new_for_account(txn.sender), ok))
        /\ IF ok
           THEN /\ store' = Set(store, new_for_account(txn.sender),
                                Encode(MintResource(res_sender, txn.amount)))
                /\ Return("Ok", KEEP_STATUS)
           ELSE /\ store' = store
                /\ Return("Panic", NO_STATUS)
    /\ UNCHANGED <<txn, pre, ntx>>

\* Payment arm: get_from_statedb(&access_path_sender)?.expect(..).try_into()?
PayGetSender ==
    /\ pc = "pay_get_sender"
    /\ \E ok \in BOOLEAN :
        LET found == SenderLookup(ok, Get(store, new_for_account(txn.sender)))
        IN  /\ calls' = Append(calls, Call("get", new_for_account(txn.sender), ok))
            /\ IF found.out = "Some"
               THEN /\ res_sender' = found.res
                    /\ pc' = "pay_get_receiver"
                    /\ UNCHANGED <<result, res_recv, new_recv>>
               ELSE Return(found.out, NO_STATUS)
    /\ UNCHANGED <<store, txn, pre, ntx>>

\* A lookup that creates the account whatever it found
CreateOnDemand_Always(got) == TRUE

\* Whether the lookup of a recipient or an author leads to create_account
CreateOnDemand(got) == ~got.some

\* Payment arm: get_from_statedb(&access_path_receiver), Some(blob) or None
PayGetReceiver ==
    /\ pc = "pay_get_receiver"
    /\ \E ok \in BOOLEAN :
        LET got == Get(store, new_for_account(txn.recipient))
        IN  /\ calls' = Append(calls, Call("get", new_for_account(txn.recipient), ok))
            /\ IF ~ok THEN Return("Err", NO_STATUS)
               ELSE IF CreateOnDemand(got)
               THEN /\ pc' = "pay_create"
                    /\ UNCHANGED <<result, res_sender, res_recv, new_recv>>
               ELSE IF ~Decodable(got.blob) THEN Return("Err", NO_STATUS)
               ELSE /\ res_recv' = Decode(got.blob)
                    /\ pc' = "pay_set_sender"
                    /\ UNCHANGED <<result, res_sender, new_recv>>
    /\ UNCHANGED <<store, txn, pre, ntx>>

\* Payment arm: state_store.create_account(recipient)?
PayCreate ==
    /\ pc = "pay_create"
    /\ \E ok \in BOOLEAN :
        /\ calls' = Append(calls, Call("create_account", txn.recipient, ok))
        /\ IF ok
           THEN /\ store' = CreateAccountIn(store, txn.recipient)
                /\ pc' = "pay_reget"
                /\ UNCHANGED <<result, res_sender, res_recv, new_recv>>
           ELSE /\ store' = store
                /\ Return("Err", NO_STATUS)
    /\ UNCHANGED <<txn, pre, ntx>>

\* Payment arm: get_from_statedb(&access_path_receiver)?.expect(..), try_into
PayReget ==
    /\ pc = "pay_reget"
    /\ \E ok \in BOOLEAN :
        LET got == Get(store, new_for_account(txn.recipient))
        IN  /\ calls' = Append(calls, Call("get", new_for_account(txn.recipient), ok))
            /\ IF ~ok THEN Return("Err", NO_STATUS)
               ELSE IF ~got.some THEN Return("Panic", NO_STATUS)
               ELSE IF ~Decodable(got.blob) THEN Return("Err", NO_STATUS)
               ELSE /\ res_recv' = Decode(got.blob)
                    /\ pc' = "pay_set_sender"
                    /\ UNCHANGED <<result, res_sender, new_recv>>
    /\ UNCHANGED <<store, txn, pre, ntx>>

\* Payment arm: the new resources are computed, then set(access_path_sender, ..)?
PaySetSender ==
    /\ pc = "pay_set_sender"
    /\ \E overflow_checks \in OverflowChecks, ok \in BOOLEAN :
       IF overflow_checks /\ PaymentOverflows(res_sender, res_recv, txn.amount)
       THEN /\ Return("Panic", NO_STATUS)
            /\ UNCHANGED <<store, calls>>
       ELSE
            /\ calls' = Append(calls, Call("set", new_for_account(txn.sender), ok))
            /\ IF ok
               THEN /\ store' = Set(store, new_for_account(txn.sender),
                                    Encode(NewSender(res_sender, txn.amount)))
                    /\ new_recv' = NewReceiver(res_sender, res_recv, txn.amount)
                    /\ pc' = "pay_set_receiver"
                    /\ UNCHANGED <<result, res_sender, res_recv>>
               ELSE /\ store' = store
                    /\ Return("Err", NO_STATUS)
    /\ UNCHANGED <<txn, pre, ntx>>

\* Payment arm: set(access_path_receiver, ..)?, then the outcome
PaySetReceiver ==
    /\ pc = "pay_set_receiver"
    /\ \E ok \in BOOLEAN :
        /\ calls' = Append(calls, Call("set", new_for_account(txn.recipient), ok))
        /\ IF ok
           THEN /\ store' = Set(store, new_for_account(txn.recipient), Encode(new_recv))
                /\ Return("Ok", KEEP_STATUS)
           ELSE /\ store' = store
                /\ Return("Err", NO_STATUS)
    /\ UNCHANGED <<txn, pre, ntx>>

\* BlockMetadata arm: get_from_statedb(&access_path), Some(blob) or None
BmGet ==
    /\ pc = "bm_get"
    /\ \E ok \in BOOLEAN :
        LET got == Get(store, new_for_account(txn.sender))
        IN  /\ calls' = Append(calls, Call("get", new_for_account(txn.sender), ok))
            /\ IF ~ok THEN Return("Err", NO_STATUS)
               ELSE IF CreateOnDemand(got)
               THEN /\ pc' = "bm_create"
                    /\ UNCHANGED <<result, res_sender, res_recv, new_recv>>
               ELSE IF ~Decodable(got.blob) THEN Return("Err", NO_STATUS)
               ELSE /\ res_sender' = Decode(got.blob)
                    /\ pc' = "bm_set"
                    /\ UNCHANGED <<result, res_recv, new_recv>>
    /\ UNCHANGED <<store, txn, pre, ntx>>

\* BlockMetadata arm: state_store.create_account(author)?
BmCreate ==
    /\ pc = "bm_create"
    /\ \E ok \in BOOLEAN :
        /\ calls' = Append(calls, Call("create_account", txn.sender, ok))
        /\ IF ok
           THEN /\ store' = CreateAccountIn(store, txn.sender)
                /\ pc' = "bm_reget"
                /\ UNCHANGED <<result, res_sender, res_recv, new_recv>>
           ELSE /\ store' = store
                /\ Return("Err", NO_STATUS)
    /\ UNCHANGED <<txn, pre, ntx>>

\* BlockMetadata arm: get_from_statedb(&access_path)?.expect(..), try_into
BmReget ==
    /\ pc = "bm_reget"
    /\ \E ok \in BOOLEAN :
        LET got == Get(store, new_for_account(txn.sender))
        IN  /\ calls' = Append(calls, Call("get", new_for_account(txn.sender), ok))
            /\ IF ~ok THEN Return("Err", NO_STATUS)
               ELSE IF ~got.some THEN Return("Panic", NO_STATUS)
               ELSE IF ~Decodable(got.blob) THEN Return("Err", NO_STATUS)
               ELSE /\ res_sender' = Decode(got.blob)
                    /\ pc' = "bm_set"
                    /\ UNCHANGED <<result, res_recv, new_recv>>
    /\ UNCHANGED <<store, txn, pre, ntx>>

\* BlockMetadata arm: the new resource is computed, then set(access_path, ..)?
BmSet ==
    /\ pc = "bm_set"
    /\ \E overflow_checks \in OverflowChecks, ok \in BOOLEAN :
       IF overflow_checks /\ Overflows(res_sender.balance, BlockReward)
       THEN /\ Return("Panic", NO_STATUS)
            /\ UNCHANGED <<store, calls>>
       ELSE
            /\ calls' = Append(calls, Call("set", new_for_account(txn.sender), ok))
            /\ IF ok
               THEN /\ store' = Set(store, new_for_account(txn.sender),
                                    Encode(RewardResource(res_sender)))
                    /\ Return("Ok", KEEP_STATUS)
               ELSE /\ store' = store
                    /\ Return("Err", NO_STATUS)
    /\ UNCHANGED <<txn, pre, ntx>>

\* execute_transaction(Transaction::BlockMetadata)
ExecuteBlockMetadata(author) ==
    /\ pc = "idle"
    /\ ntx < MaxTxns
    /\ ntx' = ntx + 1
    /\ Begin(Txn(MockTransaction("BlockMetadata", author, author, Zero), "none"),
             "bm_get")

\* What a StateSet payload may put at a path: nothing (a deletion), a blob that is
\* no account resource, or the blob of an account resource
StateSetValues ==
    {None,
     Some(<<0>>),
     Some(Encode(AccountResource(N(10), N(5), 0))),
     Some(Encode(AccountResource(N(100), Zero, 0))),
     Some(Encode(AccountResource(N(10), U64Max, 0)))}

\* ChainState::apply: the whole payload or, on failure, nothing of it
Apply(s, a, v) == [s EXCEPT ![a] = v]

\* A StateSet arm that keeps the transaction whatever the backend answered
StateSetStatus_AlwaysKeep(ok) == KEEP_STATUS

\* The status of the StateSet arm
StateSetStatus(ok) == IF ok THEN KEEP_STATUS ELSE DISCARD_STATUS

\* execute_transaction(Transaction::StateSet)
ExecuteStateSet(a, v) ==
    /\ pc = "idle"
    /\ ntx < MaxTxns
    /\ ntx' = ntx + 1
    /\ \E ok \in BOOLEAN :
        /\ txn' = Txn(MockTransaction("StateSet", a, a, Zero), "none")
        /\ pre' = store
        /\ calls' = <<Call("apply", a, ok)>>
        /\ store' = IF ok THEN Apply(store, a, v) ELSE store
        /\ Return("Ok", StateSetStatus(ok))

----------------------------------------------------------------------------
\* The state store adapter (chain_state.rs): write-sets, account data, read view.

WriteValue(blob) == [tag |-> "Value", blob |-> blob]

WriteDeletion == [tag |-> "Deletion", blob |-> <<>>]

\* The blob a write-set may carry: an account resource
WriteBlobs == {Encode(AccountResource(N(100), Zero, 0))}

WriteOps == {WriteValue(b) : b \in WriteBlobs} \cup {WriteDeletion}

WriteEntries == [path : Addr, op : WriteOps]

\* The write-sets of at most MaxWrites operations
WriteSets == UNION {[1..n -> WriteEntries] : n \in 0..MaxWrites}

\* A loop body that does nothing for a Deletion
ApplyWriteOp_KeepsDeleted(s, entry, ok) ==
    IF ~ok THEN s
    ELSE IF entry.op.tag = "Value" THEN Set(s, entry.path, entry.op.blob)
    ELSE s

\* add_write_set: one operation of the loop; the Result of set / remove is dropped,
\* so a failed call (ok = FALSE) leaves the content as it is and the loop goes on
ApplyWriteOp(s, entry, ok) ==
    IF ~ok THEN s
    ELSE IF entry.op.tag = "Value" THEN Set(s, entry.path, entry.op.blob)
    ELSE Remove(s, entry.path)

\* The backend call one operation of a write-set makes
WriteOpCall(entry) == IF entry.op.tag = "Value" THEN "set" ELSE "remove"

\* StateStore::add_write_set(write_set): entry
AddWriteSet(ws) ==
    /\ pc = "idle"
    /\ ntx < MaxTxns
    /\ ntx' = ntx + 1
    /\ Begin(Call4(MockTransaction("AddWriteSet", 1, 1, Zero), "none", NoPayload, ws),
             "add_write_set")

\* StateStore::add_write_set: the next operation of the loop, or its end
AddWriteSetStep ==
    /\ pc = "add_write_set"
    /\ IF Len(calls) = Len(txn.ws)
       THEN /\ Return("Ok", NO_STATUS)
            /\ UNCHANGED <<store, calls>>
       ELSE \E ok \in BOOLEAN :
            LET entry == txn.ws[Len(calls) + 1]
            IN  /\ store' = ApplyWriteOp(store, entry, ok)
                /\ calls' = Append(calls, Call(WriteOpCall(entry), entry.path, ok))
                /\ UNCHANGED <<pc, result, res_sender, res_recv, new_recv>>
    /\ UNCHANGED <<txn, pre, ntx>>

\* The account data add_account_data may be given: its resource
AccountDataResources == {AccountResource(N(150), One, 0)}

\* StateStore::add_account_data(account_data): simple_serialize gives Some(blob)
\* and the blob is set (the Result of set is dropped), or gives None: a panic
AddAccountData(a, r, serialized) ==
    /\ pc = "idle"
    /\ ntx < MaxTxns
    /\ ntx' = ntx + 1
    /\ txn' = Txn(MockTransaction("AddAccountData", a, a, Zero), "none")
    /\ pre' = store
    /\ IF serialized
       THEN \E ok \in BOOLEAN :
            /\ calls' = <<Call("set", new_for_account(a), ok)>>
            /\ store' = IF ok THEN Set(store, new_for_account(a), Encode(r)) ELSE store
            /\ Return("Ok", NO_STATUS)
       ELSE /\ calls' = <<>>
            /\ store' = store
            /\ Return("Panic", NO_STATUS)

\* A path as the VM names it (LibraAccessPath)
LibraAccessPath(a) == [address |-> a, path |-> "account"]

\* AccessPathHelper::to_Starcoin_AccessPath
to_Starcoin_AccessPath(access_path) == new_for_account(access_path.address)

\* A read view that answers for the first path whatever path is asked
StateView_get_FirstPath(s, access_path, ok) ==
    IF ok THEN RetValue(Get(s, 1)) ELSE Ret("Err", NO_STATUS)

\* StateView::get for StateStore
StateView_get(s, access_path, ok) ==
    IF ok THEN RetValue(Get(s, to_Starcoin_AccessPath(access_path)))
    ELSE Ret("Err", NO_STATUS)

\* RemoteCache::get for StateStore: Ok(StateView::get(..).expect("it should not error"))
RemoteCache_get(s, access_path, ok) ==
    LET r == StateView_get(s, access_path, ok)
    IN  IF r.ret = "Err" THEN Ret("Panic", NO_STATUS) ELSE r

\* A call of the read view
ReadCall(kind, a, ok, r) ==
    /\ pc = "idle"
    /\ txn' = Txn(MockTransaction(kind, a, a, Zero), "none")
    /\ pre' = store
    /\ calls' = <<Call("get", to_Starcoin_AccessPath(LibraAccessPath(a)), ok)>>
    /\ pc' = "idle"
    /\ result' = r
    /\ UNCHANGED <<store, res_sender, res_recv, new_recv, ntx>>

StateViewGet(a) ==
    \E ok \in BOOLEAN :
        ReadCall("StateView::get", a, ok, StateView_get(store, LibraAccessPath(a), ok))

RemoteCacheGet(a) ==
    \E ok \in BOOLEAN :
        ReadCall("RemoteCache::get", a, ok, RemoteCache_get(store, LibraAccessPath(a), ok))

----------------------------------------------------------------------------
Step ==
    \/ MintGet \/ MintSet
    \/ PayGetSender \/ PayGetReceiver \/ PayCreate \/ PayReget
    \/ PaySetSender \/ PaySetReceiver
    \/ BmGet \/ BmCreate \/ BmReget \/ BmSet

NextLedger ==
    \/ \E a \in Addr : CreateAccount(a)
    \/ \E a \in Addr, p \in Payloads : ExecuteUserTransaction(a, p)
    \/ \E a \in Addr : ExecuteBlockMetadata(a)
    \/ Step

Next ==
    \/ NextLedger
    \/ \E a \in Addr, v \in StateSetValues : ExecuteStateSet(a, v)

\* Every kind of transaction
Spec == Init /\ [][Next]_vars

\* create_account, Mint, Payment and BlockMetadata only: no StateSet
SpecLedger == Init /\ [][NextLedger]_vars

NextAdapter ==
    \/ \E ws \in WriteSets : AddWriteSet(ws)
    \/ AddWriteSetStep
    \/ \E a \in Addr, r \in AccountDataResources, serialized \in BOOLEAN :
          AddAccountData(a, r, serialized)
    \/ \E a \in Addr : StateViewGet(a)
    \/ \E a \in Addr : RemoteCacheGet(a)

\* The state store adapter on its own
SpecAdapter == Init /\ [][NextAdapter]_vars

----------------------------------------------------------------------------
\* What the claims speak of.

\* The last call has returned
Returned == pc = "idle" /\ result.ret \in {"Ok", "Err", "Panic"}

\* The last call returned an outcome
Succeeded == pc = "idle" /\ result.ret = "Ok"

\* No backend call of the current/last call failed
AllCallsOk == \A i \in DOMAIN calls : calls[i].ok

\* The balance at address a in backend content s, 0 when a has no resource
BalanceOf(s, a) == IF s[a].some THEN Res(s, a).balance ELSE Zero

SeqOf(s, a) == IF s[a].some THEN Res(s, a).sequence_number ELSE Zero

----------------------------------------------------------------------------
\* C1: a Payment that returns an outcome leaves the sender with S - min(amount, S)
\* and the recipient with R + min(amount, S) (R = 0 when the recipient had no
\* resource), and the sum of the two balances is what it was.
C1_PaymentConservation ==
    (Succeeded /\ txn.kind = "Payment") =>
        LET S == BalanceOf(pre, txn.sender)
            R == BalanceOf(pre, txn.recipient)
            d == NMin(txn.amount, S)
        IN  /\ BalanceOf(store, txn.sender) = NSub(S, d)
            /\ BalanceOf(store, txn.recipient) = NAdd(R, d)
            /\ NAdd(BalanceOf(store, txn.sender), BalanceOf(store, txn.recipient))
                   = NAdd(S, R)

\* C2: a Mint on an existing sender, whatever its balance and sequence number,
\* returns Keep(EXECUTED) unless a backend call fails, and leaves the sender with
\* balance amount, sequence number 1 and the authentication key it had.
C2_MintSetsExactly ==
    (Returned /\ txn.kind = "Mint" /\ HasRes(pre, txn.sender)) =>
        /\ AllCallsOk => result.ret = "Ok"
        /\ result.ret = "Ok" =>
            /\ result = Ret("Ok", KEEP_STATUS)
            /\ store[txn.sender] =
                   Some(Encode(AccountResource(
                       txn.amount, One, Res(pre, txn.sender).authentication_key)))

\* C2's case: a Mint returned Keep on a sender whose balance was neither 0 nor the
\* amount, whose sequence number was above 1 and whose key is not KeyOf's
C2_Witness ==
    /\ Succeeded /\ txn.kind = "Mint" /\ HasRes(pre, txn.sender)
    /\ Res(pre, txn.sender).balance = N(10)
    /\ Res(pre, txn.sender).sequence_number = N(5)
    /\ Res(pre, txn.sender).authentication_key # KeyOf(txn.sender)
    /\ txn.amount = N(150)

\* C3: a successful transaction of an account never lowers the sequence number
\* stored for that account.
C3_SequenceNumberMonotone ==
    (Succeeded /\ txn.kind \in {"Mint", "Payment", "BlockMetadata"}
        /\ HasRes(pre, txn.sender)) =>
        NLeq(Res(pre, txn.sender).sequence_number, SeqOf(store, txn.sender))

\* C4: a call that ends in an error or an abort leaves the backend content as it
\* was when the call began.
C4_NoPartialMutation ==
    (Returned /\ result.ret \in {"Err", "Panic"}) => store = pre

\* C5: a BlockMetadata on an author with balance B and sequence number n (0 and 0
\* when the author had no resource) returns Keep(EXECUTED) unless a backend call
\* fails, and leaves the author with balance B + 5,000,000,000 and sequence n.
C5_BlockReward ==
    (Returned /\ txn.kind = "BlockMetadata"
        /\ (HasRes(pre, txn.sender) \/ ~pre[txn.sender].some)) =>
        /\ AllCallsOk => result.ret = "Ok"
        /\ result.ret = "Ok" =>
            /\ result = Ret("Ok", KEEP_STATUS)
            /\ BalanceOf(store, txn.sender) =
                   NAdd(BalanceOf(pre, txn.sender), BlockReward)
            /\ SeqOf(store, txn.sender) = SeqOf(pre, txn.sender)

\* C6: a StateSet always returns an outcome: Keep(EXECUTED) when the bulk apply
\* succeeded, Discard(ABORTED, 10) when it failed, and then the only backend call
\* made is the apply itself.  A Mint, Payment or BlockMetadata that returns an
\* outcome returns Keep(EXECUTED).
C6_StateSetStatus ==
    /\ (Returned /\ txn.kind = "StateSet") =>
        /\ result.ret = "Ok"
        /\ Len(calls) = 1 /\ calls[1].op = "apply"
        /\ calls[1].ok =>
            result.status = "Keep" /\ result.code = "EXECUTED"
        /\ ~calls[1].ok =>
            /\ result.status = "Discard" /\ result.code = "ABORTED"
            /\ result.sub = 10
    /\ (Succeeded /\ txn.kind \in {"Mint", "Payment", "BlockMetadata"}) =>
        result.status = "Keep" /\ result.code = "EXECUTED"

\* C6's case: a StateSet whose bulk apply failed, on a store that holds a resource
C6_Witness ==
    /\ Returned /\ txn.kind = "StateSet" /\ ~calls[1].ok
    /\ \E a \in Addr : HasRes(store, a)

\* The payload shapes decode_transaction gives an operation for
RecognisedShapes == {"integer", "address_integer"}

\* C7: a UserTransaction whose payload is of no recognised shape is rejected
\* without any backend call, and the backend content is what it was.
C7_UnsupportedRejected ==
    (txn.shape \notin RecognisedShapes \cup {"none"}) =>
        /\ pc = "idle"
        /\ result.ret = "Panic"
        /\ calls = <<>>
        /\ store = pre

\* C7's case: a script of three arguments was rejected on a store that holds a
\* funded account
C7_Witness ==
    /\ Returned /\ txn.shape = "three_or_more_arguments"
    /\ \E a \in Addr : HasRes(store, a) /\ Res(store, a).balance # Zero

\* C8: a Payment that returns an outcome, to a recipient that had no resource,
\* leaves the recipient with a resource whose balance is min(amount, S); from
\* sender {100, 0} and amount 150 it leaves sender {0, 1}, recipient {100, 0}.
C8_PaymentCreatesRecipient ==
    (Succeeded /\ txn.kind = "Payment" /\ HasRes(pre, txn.sender)
        /\ ~pre[txn.recipient].some) =>
        LET s == Res(pre, txn.sender)
        IN  /\ HasRes(store, txn.recipient)
            /\ Res(store, txn.recipient).balance = NMin(txn.amount, s.balance)
            /\ (s.balance = N(100) /\ s.sequence_number = Zero
                    /\ txn.amount = N(150)) =>
                /\ Res(store, txn.sender).balance = Zero
                /\ Res(store, txn.sender).sequence_number = One
                /\ Res(store, txn.recipient).balance = N(100)
                /\ Res(store, txn.recipient).sequence_number = Zero

\* C8's case: the scenario itself
C8_Witness ==
    /\ Succeeded /\ txn.kind = "Payment" /\ HasRes(pre, txn.sender)
    /\ ~pre[txn.recipient].some
    /\ Res(pre, txn.sender).balance = N(100)
    /\ Res(pre, txn.sender).sequence_number = Zero
    /\ txn.amount = N(150)

\* C9: a Mint or a Payment whose sender has no resource never returns an outcome:
\* it aborts (or, when the lookup itself fails, returns the error), and at no
\* point of its processing does the backend content differ from what it was.
C9_MissingSenderFatal ==
    (txn.kind \in {"Mint", "Payment"} /\ ~pre[txn.sender].some) =>
        /\ store = pre
        /\ result.ret # "Ok"
        /\ pc \in {"idle", "mint_get", "pay_get_sender"}
        /\ (Returned /\ AllCallsOk) => result.ret = "Panic"

\* C9's case: a Payment from an address without a resource to a funded account
C9_Witness ==
    /\ Returned /\ txn.kind = "Payment" /\ ~pre[txn.sender].some
    /\ result.ret = "Panic"
    /\ HasRes(pre, txn.recipient) /\ Res(pre, txn.recipient).balance # Zero

\* C10: create_account on an address that has a resource changes nothing, and a
\* Payment or a BlockMetadata calls create_account only right after a lookup of
\* that path that found nothing.
C10_CreateNeverResets ==
    /\ (Returned /\ txn.kind = "CreateAccount" /\ pre[txn.sender].some) =>
        store = pre
    /\ \A i \in DOMAIN calls :
        (txn.kind # "CreateAccount" /\ calls[i].op = "create_account") =>
            /\ ~pre[calls[i].path].some
            /\ i > 1
            /\ calls[i - 1] = Call("get", calls[i].path, TRUE)
            /\ txn.kind \in {"Payment", "BlockMetadata"}

\* C10's case: create_account succeeded on a funded account
C10_Witness ==
    /\ Succeeded /\ txn.kind = "CreateAccount" /\ HasRes(pre, txn.sender)
    /\ Res(pre, txn.sender).balance # Zero
    /\ Res(pre, txn.sender).sequence_number # Zero

----------------------------------------------------------------------------
\* The calls of the state store adapter
AdapterWrites == {"AddWriteSet", "AddAccountData"}

AdapterReads == {"StateView::get", "RemoteCache::get"}

\* C11: a call through the adapter, or a Mint, in which a backend call failed
\* returns an error: it neither returns normally nor aborts.
C11_BackendFailureSurfaces ==
    (Returned /\ ~AllCallsOk
        /\ txn.kind \in AdapterWrites \cup AdapterReads \cup {"Mint"}) =>
        result.ret = "Err"

\* The last operation of write-set ws on path a, 0 when none names a
LastWrite(ws, a) ==
    IF \E i \in DOMAIN ws : ws[i].path = a
    THEN CHOOSE i \in DOMAIN ws :
             /\ ws[i].path = a
             /\ \A j \in DOMAIN ws : ws[j].path = a => j <= i
    ELSE 0

\* The content after the operations of ws, left to right, on content s
RECURSIVE FoldWriteSet(_, _)
FoldWriteSet(s, ws) ==
    IF ws = <<>> THEN s
    ELSE FoldWriteSet(
             [s EXCEPT ![Head(ws).path] =
                 IF Head(ws).op.tag = "Value" THEN Some(Head(ws).op.blob) ELSE None],
             Tail(ws))

\* C12: an add_write_set in which no backend call failed has made one call per
\* operation, in the write-set's order, set for a Value and remove for a Deletion;
\* the content is the left fold of the operations over the content before: a path
\* holds the blob of the last Value on it, nothing when its last operation was a
\* Deletion, and what it held when no operation names it.
C12_WriteSetInOrder ==
    (Returned /\ txn.kind = "AddWriteSet" /\ AllCallsOk) =>
        /\ Len(calls) = Len(txn.ws)
        /\ \A i \in DOMAIN calls :
            /\ calls[i].path = txn.ws[i].path
            /\ calls[i].op = (IF txn.ws[i].op.tag = "Value" THEN "set" ELSE "remove")
        /\ store = FoldWriteSet(pre, txn.ws)
        /\ \A a \in Addr :
            LET i == LastWrite(txn.ws, a)
            IN  store[a] = IF i = 0 THEN pre[a]
                           ELSE IF txn.ws[i].op.tag = "Value"
                           THEN Some(txn.ws[i].op.blob)
                           ELSE None

\* C12's case: a write-set whose two operations name the same path, a Value then
\* a Deletion, applied to a content that held an entry at that path and another
\* entry at a path the write-set does not name
C12_Witness ==
    /\ Returned /\ txn.kind = "AddWriteSet" /\ AllCallsOk
    /\ Len(txn.ws) = 2
    /\ txn.ws[1].path = txn.ws[2].path
    /\ txn.ws[1].op.tag = "Value" /\ txn.ws[2].op.tag = "Deletion"
    /\ pre[txn.ws[1].path].some
    /\ \E a \in Addr : a # txn.ws[1].path /\ store[a].some

\* C13: what a reader of the store sees while an add_write_set runs, and after
\* it, is the content before the call or the content with every operation
\* applied, never some of the operations; and when a backend call of it failed
\* the content is what it was before the call.
C13_WriteSetAtomic ==
    (txn.kind = "AddWriteSet") =>
        /\ store \in {pre, FoldWriteSet(pre, txn.ws)}
        /\ ~AllCallsOk => store = pre

\* C14: a Payment that returns an outcome, from a sender whose sequence number was
\* n, leaves the sender with n + 1 and the recipient with n, and leaves each of
\* the two resources the authentication key it had (the recipient's being the
\* key given at its creation when it had no resource).
C14_PaymentSequenceNumbers ==
    (Succeeded /\ txn.kind = "Payment" /\ HasRes(pre, txn.sender)) =>
        LET n == Res(pre, txn.sender).sequence_number
        IN  /\ HasRes(store, txn.sender) /\ HasRes(store, txn.recipient)
            /\ Res(store, txn.sender).sequence_number = NAdd(n, One)
            /\ Res(store, txn.recipient).sequence_number = n
            /\ Res(store, txn.sender).authentication_key
                   = Res(pre, txn.sender).authentication_key
            /\ Res(store, txn.recipient).authentication_key
                   = (IF HasRes(pre, txn.recipient)
                      THEN Res(pre, txn.recipient).authentication_key
                      ELSE KeyOf(txn.recipient))

\* C15: a UserTransaction whose payload is a script with empty code is decoded,
\* with the sender of the signed transaction, to Mint{sender, amount} when its
\* arguments are exactly one integer, to Payment{sender, recipient, amount} when
\* they are exactly (address, integer), and is rejected as fatal otherwise; so
\* what encode_mint_program and encode_transfer_program build decodes to the
\* operation it was built from.
C15_DecodeClassification ==
    LET p == txn.payload
    IN  /\ (p.kind = "Script" /\ p.code_empty) =>
            IF Len(p.args) = 1 /\ p.args[1].tag = "U64"
            THEN /\ txn.kind = "Mint" /\ txn.sender = txn.signer
                 /\ txn.amount = p.args[1].u64
            ELSE IF Len(p.args) = 2 /\ p.args[1].tag = "Address"
                    /\ p.args[2].tag = "U64"
            THEN /\ txn.kind = "Payment" /\ txn.sender = txn.signer
                 /\ txn.recipient = p.args[1].addr
                 /\ txn.amount = p.args[2].u64
            ELSE /\ txn.kind = "Unsupported"
                 /\ pc = "idle" /\ result.ret = "Panic"
        /\ \A a \in Amounts :
            (p = encode_mint_program(a)) =>
                /\ txn.kind = "Mint" /\ txn.sender = txn.signer /\ txn.amount = a
        /\ \A r \in Addr, a \in Amounts :
            (p = encode_transfer_program(r, a)) =>
                /\ txn.kind = "Payment" /\ txn.sender = txn.signer
                /\ txn.recipient = r /\ txn.amount = a

\* C15's case: a script of two arguments in the order (integer, address) was
\* rejected, on a store that holds the account of its sender
C15_Witness ==
    /\ Returned /\ result.ret = "Panic"
    /\ txn.payload = Script(TRUE, <<ArgU64(N(100)), ArgAddress(1)>>)
    /\ HasRes(store, txn.signer)

\* C16: no step of create_account, Mint, Payment or BlockMetadata leaves an
\* address without an entry that had one before the step.
C16_NeverDeleted ==
    [][\A a \in Addr : store[a].some => store'[a].some]_vars

\* C16's case: every address holds a resource and a Payment that moved the whole
\* balance of its sender has returned its outcome
C16_Witness ==
    /\ Succeeded /\ txn.kind = "Payment" /\ txn.sender # txn.recipient
    /\ \A a \in Addr : HasRes(pre, a) /\ HasRes(store, a)
    /\ Res(pre, txn.sender).balance # Zero
    /\ Res(store, txn.sender).balance = Zero

\* C17: a StateView::get or RemoteCache::get leaves the content as it was, and
\* what it returns, when it returns a value, is what the content holds at the
\* path asked: the blob, or None; it returns a value unless the backend fails.
C17_ReadOnlyView ==
    (txn.kind \in AdapterReads) =>
        /\ pc = "idle"
        /\ store = pre
        /\ calls[1].ok => result.ret = "Ok"
        /\ result.ret = "Ok" => result.value = store[txn.sender]

\* C17's case: a read that returned the blob of a path while the first path
\* holds none
C17_Witness ==
    /\ txn.kind = "RemoteCache::get" /\ result.ret = "Ok"
    /\ ~store[1].some /\ store[txn.sender].some

C19_KeyNeverChanged ==
    [][\A a \in Addr :
          HasRes(store, a) =>
              /\ HasRes(store', a)
              /\ Res(store', a).authentication_key = Res(store, a).authentication_key
      ]_vars

\* C19's case: a Payment between two existing accounts that hold different keys
\* returned its outcome and changed both resources
C19_Witness ==
    /\ Succeeded /\ txn.kind = "Payment" /\ txn.sender # txn.recipient
    /\ HasRes(pre, txn.sender) /\ HasRes(pre, txn.recipient)
    /\ Res(pre, txn.sender).authentication_key
           # Res(pre, txn.recipient).authentication_key
    /\ store[txn.sender] # pre[txn.sender]
    /\ store[txn.recipient] # pre[txn.recipient]

\* C20: when the Payment arm is about to compute its new resources, the credit
\* balance_receiver + deduction and the increment sequence_number + 1 are at most
\* 2^64 - 1 and the deduction is at most the sender's balance; when the
\* BlockMetadata arm is about to compute its new resource, balance + 5,000,000,000
\* is at most 2^64 - 1.
C20_NoOverflow ==
    /\ (pc = "pay_set_sender") =>
        /\ ~Overflows(res_recv.balance, Deduction(res_sender.balance, txn.amount))
        /\ ~Overflows(res_sender.sequence_number, One)
        /\ NLeq(Deduction(res_sender.balance, txn.amount), res_sender.balance)
    /\ (pc = "bm_set") => ~Overflows(res_sender.balance, BlockReward)

====
